---- MODULE Spec2Model ----
(***************************************************************************)
(* Overlanding Trip Planner: the client-side search, map and selection     *)
(* logic of the React application.                                         *)
(*                                                                         *)
(* The application of src/unnamed/part_000 (second file, lines 212-657) is *)
(* the Nominatim variant: two debounced search fields, a trip-plan         *)
(* request and a single selected campsite.  src/src/App.jsx is the offline *)
(* variant, whose search is a synchronous lookup in a built-in table.      *)
(* src/unnamed/part_001 is the TripMap component.                          *)
(*                                                                         *)
(* Strings are TLA+ strings; a JavaScript number is a decimal              *)
(* [kind |-> "num", m |-> mantissa, d |-> decimals] or [kind |-> "NaN"].   *)
(* Time is counted in milliseconds.                                        *)
(***************************************************************************)
EXTENDS Integers, Sequences, FiniteSets, TLC

VARIABLES
    text,           \* startCity / destCity: the text of each search field
    suggestions,    \* startSuggestions / destSuggestions
    searching,      \* searchingStart / searchingDest
    timer,          \* startTimerRef / destTimerRef: the pending debounce timer
    inflight,       \* per field, the geocoding calls awaiting their response, oldest first
    scheduled,      \* per field, how many of its setTimeout timers are pending in the browser
    mounted,        \* App is mounted
    latestPending,  \* history: the latest issued call of the field is still in flight
    sinceKey,       \* history: ms since the last keystroke of the field (capped)
    burstCalls,     \* history: calls issued since the current burst of keystrokes began
    sinceCall,      \* history: ms since the last call of the field was issued (capped)
    userSelection,  \* history: the selection as the user's last select or clear left it
    tripPlan,       \* tripPlan
    loading,        \* loading
    error,          \* error
    selectedCampsite, \* selectedCampsite
    planPc,         \* position of planTrip: "idle" or "awaiting" its fetch
    planRequests,   \* how many trip-plan requests await their response
    input,          \* argument of the pure function under check
    output,         \* its result
    coords,         \* startLat, startLon / destLat, destLon: texts, per field
    fit             \* FitBounds: whether the last step's render called map.fitBounds, and with what

searchVars == <<text, suggestions, searching, timer, inflight, scheduled, mounted>>
histVars == <<latestPending, sinceKey, burstCalls, sinceCall, userSelection>>
tripVars == <<tripPlan, loading, error, selectedCampsite, planPc, planRequests>>
pureVars == <<input, output>>
mapVars == <<coords, fit>>
vars == <<text, suggestions, searching, timer, inflight, scheduled, mounted,
          latestPending, sinceKey, burstCalls, sinceCall, userSelection,
          tripPlan, loading, error, selectedCampsite, planPc, planRequests, input, output,
          coords, fit>>

Fields == {"start", "dest"}

Min(a, b) == IF a < b THEN a ELSE b
Max(a, b) == IF a > b THEN a ELSE b

(***************************************************************************)
(* JavaScript string primitives.                                           *)
(***************************************************************************)
Char(s, i) == SubSeq(s, i, i)

LowerLetters == <<"a","b","c","d","e","f","g","h","i","j","k","l","m",
                  "n","o","p","q","r","s","t","u","v","w","x","y","z">>
UpperLetters == <<"A","B","C","D","E","F","G","H","I","J","K","L","M",
                  "N","O","P","Q","R","S","T","U","V","W","X","Y","Z">>

UpperChar(c) ==
    IF \E i \in 1..26 : LowerLetters[i] = c
    THEN UpperLetters[CHOOSE i \in 1..26 : LowerLetters[i] = c]
    ELSE c

LowerChar(c) ==
    IF \E i \in 1..26 : UpperLetters[i] = c
    THEN LowerLetters[CHOOSE i \in 1..26 : UpperLetters[i] = c]
    ELSE c

RECURSIVE toUpperCase(_)
toUpperCase(s) ==
    IF s = "" THEN "" ELSE UpperChar(Head(s)) \o toUpperCase(Tail(s))

RECURSIVE toLowerCase(_)
toLowerCase(s) ==
    IF s = "" THEN "" ELSE LowerChar(Head(s)) \o toLowerCase(Tail(s))

\* s.indexOf(c): the 1-based position of the first c in s, 0 when there is none
IndexOf(s, c) ==
    IF \E i \in 1..Len(s) : Char(s, i) = c
    THEN CHOOSE i \in 1..Len(s) : Char(s, i) = c /\ \A j \in 1..(i-1) : Char(s, j) # c
    ELSE 0

\* s.split(',')
RECURSIVE split(_)
split(s) ==
    LET i == IndexOf(s, ",")
    IN IF i = 0 THEN <<s>>
       ELSE <<SubSeq(s, 1, i - 1)>> \o split(SubSeq(s, i + 1, Len(s)))

IsSpace(c) == c = " "

\* s.trim()
RECURSIVE trimStart(_)
trimStart(s) ==
    IF s # "" /\ IsSpace(Head(s)) THEN trimStart(Tail(s)) ELSE s

RECURSIVE trimEnd(_)
trimEnd(s) ==
    IF s # "" /\ IsSpace(Char(s, Len(s))) THEN trimEnd(SubSeq(s, 1, Len(s) - 1)) ELSE s

trim(s) == trimEnd(trimStart(s))

\* parts.join(sep)
RECURSIVE join(_, _)
join(parts, sep) ==
    IF parts = <<>> THEN ""
    ELSE IF Len(parts) = 1 THEN parts[1]
    ELSE parts[1] \o sep \o join(Tail(parts), sep)

\* parts.slice(0, n)
slice0(parts, n) == SubSeq(parts, 1, Min(n, Len(parts)))

\* obj[key] of an object with optional string fields: a missing field and ''
\* are both falsy, and are both read as ""
Get(obj, key) == IF key \in DOMAIN obj THEN obj[key] ELSE ""

(***************************************************************************)
(* buildShortName (part_000:244-253).                                      *)
(***************************************************************************)
Truthy(s) == s # ""

Or(a, b) == IF Truthy(a) THEN a ELSE b

\* buildShortName without its "city, state" branch
buildShortName_StateIgnored(result) ==
    LET addr == IF "address" \in DOMAIN result THEN result.address ELSE <<>>
        city == Or(Get(addr, "city"), Or(Get(addr, "town"), Or(Get(addr, "village"),
                Or(Get(addr, "hamlet"), Or(Get(addr, "county"), "")))))
        country == IF Truthy(Get(addr, "country_code"))
                   THEN toUpperCase(Get(addr, "country_code")) ELSE ""
        parts == [k \in 1..Len(split(result.display_name)) |->
                      trim(split(result.display_name)[k])]
    IN IF Truthy(city) /\ Truthy(country) THEN city \o ", " \o country
       ELSE join(slice0(parts, 2), ", ")

buildShortName(result) ==
    LET addr == IF "address" \in DOMAIN result THEN result.address ELSE <<>>
        city == Or(Get(addr, "city"), Or(Get(addr, "town"), Or(Get(addr, "village"),
                Or(Get(addr, "hamlet"), Or(Get(addr, "county"), "")))))
        state == Or(Get(addr, "state"), "")
        country == IF Truthy(Get(addr, "country_code"))
                   THEN toUpperCase(Get(addr, "country_code")) ELSE ""
        parts == [k \in 1..Len(split(result.display_name)) |->
                      trim(split(result.display_name)[k])]
    IN IF Truthy(city) /\ Truthy(state) THEN city \o ", " \o state
       ELSE IF Truthy(city) /\ Truthy(country) THEN city \o ", " \o country
       ELSE join(slice0(parts, 2), ", ")

(***************************************************************************)
(* parseFloat: leading white space, an optional sign, digits, an optional  *)
(* fraction; what follows is ignored; NaN when there is no digit.           *)
(* Exponents and Infinity are not modelled.                                *)
(***************************************************************************)
NaN == [kind |-> "NaN"]
Num(m, d) == [kind |-> "num", m |-> m, d |-> d]

Digits == "0123456789"
IsDigit(c) == IndexOf(Digits, c) > 0
DigitVal(c) == IndexOf(Digits, c) - 1

RECURSIVE DigitPrefix(_)
DigitPrefix(s) ==
    IF s # "" /\ IsDigit(Head(s)) THEN Head(s) \o DigitPrefix(Tail(s)) ELSE ""

RECURSIVE ToInt(_)
ToInt(ds) ==
    IF ds = "" THEN 0
    ELSE ToInt(SubSeq(ds, 1, Len(ds) - 1)) * 10 + DigitVal(Char(ds, Len(ds)))

\* the decimal m / 10^d without trailing zeros in its fraction
RECURSIVE Normalize(_, _)
Normalize(m, d) ==
    IF d > 0 /\ m % 10 = 0 THEN Normalize(m \div 10, d - 1) ELSE Num(m, d)

parseFloatOf(s) ==
    LET s0 == trimStart(s)
        neg == s0 # "" /\ Head(s0) = "-"
        s1 == IF s0 # "" /\ Head(s0) \in {"-", "+"} THEN Tail(s0) ELSE s0
        ip == DigitPrefix(s1)
        r == SubSeq(s1, Len(ip) + 1, Len(s1))
        fp == IF r # "" /\ Head(r) = "." THEN DigitPrefix(Tail(r)) ELSE ""
        mag == ToInt(ip \o fp)
    IN IF ip = "" /\ fp = "" THEN NaN
       ELSE Normalize(IF neg THEN 0 - mag ELSE mag, Len(fp))

(***************************************************************************)
(* The place-search service (Nominatim): the records it answers a query    *)
(* with.                                                                   *)
(***************************************************************************)
RecAustinTX ==
    [display_name |-> "Austin, Travis County, Texas, United States",
     address |-> [city |-> "Austin", county |-> "Travis County", state |-> "Texas",
                  country_code |-> "us"],
     lat |-> "30.27", lon |-> "-97.74"]
RecAustinMN ==
    [display_name |-> "Austin, Mower County, Minnesota, United States",
     address |-> [town |-> "Austin", county |-> "Mower County", state |-> "Minnesota",
                  country_code |-> "us"],
     lat |-> "43.67", lon |-> "-92.97"]
RecDenver ==
    [display_name |-> "Denver, Colorado, United States",
     address |-> [city |-> "Denver", state |-> "Colorado", country_code |-> "us"],
     lat |-> "39.74", lon |-> "-104.99"]

Nominatim(q) ==
    IF q = "aus" THEN <<RecAustinTX, RecAustinMN>>
    ELSE IF q = "den" THEN <<RecDenver>>
    ELSE <<>>

\* the texts the coordinate fields and the service's records hold are parsed once
CoordTexts ==
    {"30.27", "-97.74", "39.74", "-104.99"}
    \cup {r.lat : r \in {RecAustinTX, RecAustinMN, RecDenver}}
    \cup {r.lon : r \in {RecAustinTX, RecAustinMN, RecDenver}}

ParsedTexts == [s \in CoordTexts |-> parseFloatOf(s)]

parseFloat(s) == IF s \in CoordTexts THEN ParsedTexts[s] ELSE parseFloatOf(s)

\* what the user types into a search field
Queries == {"au", "aus", "den"}

(***************************************************************************)
(* geocodeCity (part_000:256-293).                                         *)
(***************************************************************************)
DEBOUNCE_MS == 400
MIN_QUERY_LEN == 3

NoTimer == [pending |-> FALSE]
Pending(q) == [pending |-> TRUE, query |-> q, rem |-> DEBOUNCE_MS]

\* the mapping with the short name also put in the place of the name
Suggest_ShortAsName(data) ==
    [k \in 1..Len(data) |->
        [name |-> buildShortName(data[k]),
         lat |-> parseFloat(data[k].lat),
         lon |-> parseFloat(data[k].lon),
         shortName |-> buildShortName(data[k])]]

\* data.map(r => ({...})) of part_000:279-284
Suggest(data) ==
    [k \in 1..Len(data) |->
        [name |-> data[k].display_name,
         lat |-> parseFloat(data[k].lat),
         lon |-> parseFloat(data[k].lon),
         shortName |-> buildShortName(data[k])]]

\* the suggestion list each query of Queries is answered with
Answers == [q \in Queries |-> Suggest(Nominatim(q))]

RemoveAt(s, i) == SubSeq(s, 1, i - 1) \o SubSeq(s, i + 1, Len(s))

\* geocodeCity with one timer shared by the two fields
geocodeCity_SharedTimer(f, query) ==
    IF Len(query) < MIN_QUERY_LEN
    THEN /\ suggestions' = [suggestions EXCEPT ![f] = <<>>]
         /\ timer' = timer
         /\ scheduled' = scheduled
    ELSE /\ timer' = [g \in Fields |-> IF g = f THEN Pending(query) ELSE NoTimer]
         /\ scheduled' = [g \in Fields |-> IF g = f THEN 1 ELSE 0]
         /\ suggestions' = suggestions

\* geocodeCity without its clearTimeout
geocodeCity_NoClear(f, query) ==
    IF Len(query) < MIN_QUERY_LEN
    THEN /\ suggestions' = [suggestions EXCEPT ![f] = <<>>]
         /\ timer' = timer
         /\ scheduled' = scheduled
    ELSE /\ scheduled' = [scheduled EXCEPT ![f] = @ + 1]
         /\ timer' = [timer EXCEPT ![f] = Pending(query)]
         /\ suggestions' = suggestions

\* the synchronous part of geocodeCity(query, ...) of field f, lines 257-266 and 292
geocodeCity(f, query) ==
    IF Len(query) < MIN_QUERY_LEN
    THEN /\ suggestions' = [suggestions EXCEPT ![f] = <<>>]
         /\ timer' = timer
         /\ scheduled' = scheduled
    ELSE \* clearTimeout cancels the timer the ref names, if it is still pending;
         \* setTimeout schedules the new one
         /\ scheduled' = [scheduled EXCEPT ![f] = @ - (IF timer[f].pending THEN 1 ELSE 0) + 1]
         /\ timer' = [timer EXCEPT ![f] = Pending(query)]
         /\ suggestions' = suggestions

\* onChange of a search field (part_000:393-396, 420-423)
Keystroke(f, q) ==
    /\ text' = [text EXCEPT ![f] = q]
    /\ geocodeCity(f, q)
    /\ UNCHANGED <<searching, inflight, mounted>>
    /\ UNCHANGED <<tripVars, pureVars>>

\* the timer callback up to its await fetch (part_000:266-277)
TimerFire(f) ==
    /\ timer[f].pending
    /\ timer[f].rem = 0
    /\ searching' = [searching EXCEPT ![f] = TRUE]
    /\ inflight' = [inflight EXCEPT ![f] = Append(@, [query |-> timer[f].query])]
    /\ timer' = [timer EXCEPT ![f] = NoTimer]
    /\ scheduled' = [scheduled EXCEPT ![f] = @ - 1]
    /\ UNCHANGED <<text, suggestions, mounted>>
    /\ UNCHANGED <<tripVars, pureVars>>

\* the rest of the callback once the i-th call in flight answers (part_000:278-285, 289-291)
GeocodeOk(f, i) ==
    /\ i \in 1..Len(inflight[f])
    /\ suggestions' = [suggestions EXCEPT ![f] = Answers[inflight[f][i].query]]
    /\ searching' = [searching EXCEPT ![f] = FALSE]
    /\ inflight' = [inflight EXCEPT ![f] = RemoveAt(@, i)]
    /\ UNCHANGED <<text, timer, scheduled, mounted>>
    /\ UNCHANGED <<tripVars, pureVars>>

\* how a call fails: fetch rejects, res.json() rejects, or data is no array
GeocodeFailures == {"network", "json", "not_array"}

\* a failure that is shown to the user as the application's error
GeocodeFail_SurfacesError(f, i, how) ==
    /\ i \in 1..Len(inflight[f])
    /\ how \in GeocodeFailures
    /\ suggestions' = [suggestions EXCEPT ![f] = <<>>]
    /\ searching' = [searching EXCEPT ![f] = FALSE]
    /\ inflight' = [inflight EXCEPT ![f] = RemoveAt(@, i)]
    /\ error' = [message |-> "Geocoding error"]
    /\ UNCHANGED <<text, timer, scheduled, mounted>>
    /\ UNCHANGED <<tripPlan, loading, selectedCampsite, planPc, planRequests, pureVars>>

\* the rest of the callback when the i-th call in flight fails (part_000:286-291)
GeocodeFail(f, i, how) ==
    /\ i \in 1..Len(inflight[f])
    /\ how \in GeocodeFailures
    /\ suggestions' = [suggestions EXCEPT ![f] = <<>>]
    /\ searching' = [searching EXCEPT ![f] = FALSE]
    /\ inflight' = [inflight EXCEPT ![f] = RemoveAt(@, i)]
    /\ UNCHANGED <<text, timer, scheduled, mounted>>
    /\ UNCHANGED <<tripVars, pureVars>>

\* ms milliseconds pass: setTimeout's delay runs down; a due timer may still fire late
Tick(ms) ==
    /\ timer' = [f \in Fields |->
                    IF timer[f].pending
                    THEN [timer[f] EXCEPT !.rem = Max(@ - ms, 0)]
                    ELSE timer[f]]
    /\ UNCHANGED <<text, suggestions, searching, inflight, scheduled, mounted>>
    /\ UNCHANGED <<tripVars, pureVars>>

(***************************************************************************)
(* The trip-plan service and planTrip (part_000:309-334).                  *)
(***************************************************************************)
Null == [null |-> TRUE]

SiteA1 == [id |-> "a1", name |-> "Pine Flat", type |-> "dispersed",
           lat |-> Num(3310, 2), lon |-> Num(-10050, 2)]
SiteA2 == [id |-> "a2", name |-> "Lake Camp", type |-> "campground",
           lat |-> Num(3620, 2), lon |-> Num(-10310, 2)]
SiteB1 == [id |-> "b1", name |-> "Mesa RV", type |-> "rv_park",
           lat |-> Num(3505, 2), lon |-> Num(-10190, 2)]
SiteB2 == [id |-> "b2", name |-> "Dry Gulch", type |-> "primitive",
           lat |-> Num(3811, 2), lon |-> Num(-10402, 2)]

\* the campsites the trip-plan service knows, in the order it lists them
AllSites == <<SiteA1, SiteA2, SiteB1, SiteB2>>

InSet(S, x) == x \in S

\* a trip plan whose nearby campsites are the sites S: a day's segment suggests the
\* first of them, and a route is drawn when there is a site to pass
PlanOf(S) ==
    LET near == SelectSeq(AllSites, LAMBDA x : InSet(S, x))
    IN [nearby_campsites |-> near,
        segments |-> IF near = <<>> THEN <<[day |-> 1]>>
                     ELSE <<[day |-> 1, suggested_campsite |-> near[1]], [day |-> 2]>>,
        route_geometry |-> IF near = <<>> THEN <<>>
                           ELSE <<<<Num(-9774, 2), Num(3027, 2)>>,
                                  <<near[1].lon, near[1].lat>>,
                                  <<Num(-10499, 2), Num(3974, 2)>>>>]

\* what the trip-plan service may answer
Plans == {PlanOf(S) : S \in SUBSET {AllSites[i] : i \in DOMAIN AllSites}}

\* err.message of a failed request: fetch rejects, or the response is not ok
PlanErrors == {[message |-> "Failed to fetch"], [message |-> "Failed to plan trip"]}

Range(s) == {s[i] : i \in DOMAIN s}

\* the sites of the displayed plan that carry a click handler
\* (part_001:135-142, 159-165; part_000:589-592, 632-636)
ClickableSites(plan) ==
    IF plan = Null THEN {}
    ELSE Range(plan.nearby_campsites)
         \cup {seg.suggested_campsite :
                 seg \in {x \in Range(plan.segments) : "suggested_campsite" \in DOMAIN x}}

\* planTrip up to its await fetch; the button is disabled while loading (part_000:450)
PlanTrip ==
    /\ ~loading
    /\ loading' = TRUE
    /\ error' = Null
    /\ selectedCampsite' = Null
    /\ planPc' = "awaiting"
    /\ planRequests' = planRequests + 1
    /\ UNCHANGED tripPlan
    /\ UNCHANGED <<searchVars, pureVars>>

\* the response is ok and is parsed (part_000:326-328, 331-333)
PlanOk(data) ==
    /\ planPc = "awaiting"
    /\ data \in Plans
    /\ tripPlan' = data
    /\ loading' = FALSE
    /\ planRequests' = planRequests - 1
    /\ planPc' = IF planRequests > 1 THEN "awaiting" ELSE "idle"
    /\ UNCHANGED <<error, selectedCampsite>>
    /\ UNCHANGED <<searchVars, pureVars>>

\* planTrip whose catch also drops the stored plan
PlanFail_ClearsPlan(err) ==
    /\ planPc = "awaiting"
    /\ err \in PlanErrors
    /\ error' = err
    /\ tripPlan' = Null
    /\ loading' = FALSE
    /\ planRequests' = planRequests - 1
    /\ planPc' = IF planRequests > 1 THEN "awaiting" ELSE "idle"
    /\ UNCHANGED selectedCampsite
    /\ UNCHANGED <<searchVars, pureVars>>

\* planTrip without its finally block on the failure path
PlanFail_KeepsLoading(err) ==
    /\ planPc = "awaiting"
    /\ err \in PlanErrors
    /\ error' = err
    /\ planRequests' = planRequests - 1
    /\ planPc' = IF planRequests > 1 THEN "awaiting" ELSE "idle"
    /\ UNCHANGED <<tripPlan, selectedCampsite, loading>>
    /\ UNCHANGED <<searchVars, pureVars>>

\* the request fails (part_000:326, 329-333)
PlanFail(err) ==
    /\ planPc = "awaiting"
    /\ err \in PlanErrors
    /\ error' = err
    /\ loading' = FALSE
    /\ planRequests' = planRequests - 1
    /\ planPc' = IF planRequests > 1 THEN "awaiting" ELSE "idle"
    /\ UNCHANGED <<tripPlan, selectedCampsite>>
    /\ UNCHANGED <<searchVars, pureVars>>

\* handleCampsiteSelect that, with a site already selected, clears the selection
SelectCampsite_Toggles(site) ==
    /\ site \in ClickableSites(tripPlan)
    /\ selectedCampsite' = IF selectedCampsite = Null THEN site ELSE Null
    /\ UNCHANGED <<tripPlan, loading, error, planPc, planRequests>>
    /\ UNCHANGED <<searchVars, pureVars>>

\* handleCampsiteSelect (part_000:346-352), from a marker, a popup button or a card
SelectCampsite(site) ==
    /\ site \in ClickableSites(tripPlan)
    /\ selectedCampsite' = site
    /\ UNCHANGED <<tripPlan, loading, error, planPc, planRequests>>
    /\ UNCHANGED <<searchVars, pureVars>>

\* the Clear Selection button (part_000:510-512), rendered while a site is selected
ClearSelection ==
    /\ selectedCampsite # Null
    /\ selectedCampsite' = Null
    /\ UNCHANGED <<tripPlan, loading, error, planPc, planRequests>>
    /\ UNCHANGED <<searchVars, pureVars>>

(***************************************************************************)
(* TripMap's point set and FitBounds (part_001:33-43, 59-68, 104).         *)
(***************************************************************************)
\* allPoints that drops start and destination once the plan lists campsites
allPoints_SitesOnly(props) ==
    IF props.tripPlan # Null /\ "nearby_campsites" \in DOMAIN props.tripPlan
       /\ props.tripPlan.nearby_campsites # <<>>
    THEN [i \in 1..Len(props.tripPlan.nearby_campsites) |->
             <<props.tripPlan.nearby_campsites[i].lat, props.tripPlan.nearby_campsites[i].lon>>]
    ELSE <<<<parseFloat(props.startLat), parseFloat(props.startLon)>>,
           <<parseFloat(props.destLat), parseFloat(props.destLon)>>>>

\* the array built at every render of TripMap: start, destination, then the campsites
allPoints(props) ==
    LET ends == <<<<parseFloat(props.startLat), parseFloat(props.startLon)>>,
                  <<parseFloat(props.destLat), parseFloat(props.destLon)>>>>
    IN IF props.tripPlan # Null /\ "nearby_campsites" \in DOMAIN props.tripPlan
       THEN ends \o [i \in 1..Len(props.tripPlan.nearby_campsites) |->
                        <<props.tripPlan.nearby_campsites[i].lat,
                          props.tripPlan.nearby_campsites[i].lon>>]
       ELSE ends

\* the body of FitBounds' effect: what it asks of the map, if anything
FitBounds(bounds) ==
    IF Len(bounds) > 0
    THEN [called |-> TRUE, bounds |-> bounds, padding |-> <<50, 50>>]
    ELSE [called |-> FALSE]

(***************************************************************************)
(* The two views of the selection (part_000:587-592, 632-636;              *)
(* part_001:172-185).                                                      *)
(***************************************************************************)
\* selectedCampsite?.id === site.id
IsSelectedRow(site) == selectedCampsite # Null /\ selectedCampsite.id = site.id

\* the rows of the list view rendered with the class "selected": the suggestion of a
\* day's segment and the campsite cards
listHighlight ==
    IF tripPlan = Null THEN {}
    ELSE {site \in ClickableSites(tripPlan) : IsSelectedRow(site)}

\* the positions of the map's gold marker: at most one
mapHighlight ==
    IF selectedCampsite # Null
    THEN {<<selectedCampsite.lat, selectedCampsite.lon>>}
    ELSE {}

(***************************************************************************)
(* The coordinate fields and the choice of a suggestion (part_000:222-225, *)
(* 295-307).                                                               *)
(***************************************************************************)
RECURSIVE Pow10(_)
Pow10(d) == IF d = 0 THEN 1 ELSE 10 * Pow10(d - 1)

RECURSIVE NatToString(_)
NatToString(k) ==
    IF k < 10 THEN Char(Digits, k + 1)
    ELSE NatToString(k \div 10) \o Char(Digits, (k % 10) + 1)

RECURSIVE Zeros(_)
Zeros(k) == IF k <= 0 THEN "" ELSE "0" \o Zeros(k - 1)

\* Number.prototype.toString of a decimal: sign, integer part and, when there is a
\* fraction, a point and the fraction's digits
numberToString(n) ==
    IF n.kind = "NaN" THEN "NaN"
    ELSE LET mag == IF n.m < 0 THEN 0 - n.m ELSE n.m
             ip == NatToString(mag \div Pow10(n.d))
             fp == NatToString(mag % Pow10(n.d))
         IN (IF n.m < 0 THEN "-" ELSE "") \o ip
            \o (IF n.d > 0 THEN "." \o Zeros(n.d - Len(fp)) \o fp ELSE "")

\* a choice that empties the suggestion lists of both fields
selectLocation_ClearsBoth(f, suggestion) ==
    /\ coords' = [coords EXCEPT ![f] = [lat |-> numberToString(suggestion.lat),
                                        lon |-> numberToString(suggestion.lon)]]
    /\ text' = [text EXCEPT ![f] = Or(suggestion.shortName, suggestion.name)]
    /\ suggestions' = [g \in Fields |-> <<>>]
    /\ UNCHANGED <<searching, timer, inflight, scheduled, mounted>>
    /\ UNCHANGED <<tripVars, pureVars>>

\* selectStartLocation / selectDestLocation, for the field f
selectLocation(f, suggestion) ==
    /\ coords' = [coords EXCEPT ![f] = [lat |-> numberToString(suggestion.lat),
                                        lon |-> numberToString(suggestion.lon)]]
    /\ text' = [text EXCEPT ![f] = Or(suggestion.shortName, suggestion.name)]
    /\ suggestions' = [suggestions EXCEPT ![f] = <<>>]
    /\ UNCHANGED <<searching, timer, inflight, scheduled, mounted>>
    /\ UNCHANGED <<tripVars, pureVars>>

\* the props App hands to TripMap (part_000:364-372)
TripMapProps ==
    [startLat |-> coords["start"].lat, startLon |-> coords["start"].lon,
     destLat |-> coords["dest"].lat, destLon |-> coords["dest"].lon,
     tripPlan |-> tripPlan, selectedCampsite |-> selectedCampsite]

(***************************************************************************)
(* Re-rendering: a handler that sets a state of App makes App, and with it *)
(* TripMap, render again; TripMap builds allPoints anew, and FitBounds'    *)
(* effect, which depends on [map, bounds], runs again because the array is *)
(* a new one (part_001:36-40, 59-62, 104). A setter given the value the    *)
(* state already has makes no render.                                      *)
(***************************************************************************)
AppState == <<text, suggestions, searching, tripPlan, loading, error, selectedCampsite, coords>>

\* fresh: the handler sets a state to a newly built array or object
Rendered(fresh) ==
    fit' = IF fresh \/ AppState' # AppState
           THEN FitBounds(allPoints(TripMapProps'))
           ELSE [fit EXCEPT !.called = FALSE]

(***************************************************************************)
(* The application after construction (part_000:222-241).                  *)
(***************************************************************************)
NotComputed == [done |-> FALSE]
Computed(v) == [done |-> TRUE, value |-> v]

InitText == [f \in Fields |-> IF f = "start" THEN "Austin, TX" ELSE "Denver, CO"]

InitSearch ==
    /\ text = InitText
    /\ suggestions = [f \in Fields |-> <<>>]
    /\ searching = [f \in Fields |-> FALSE]
    /\ timer = [f \in Fields |-> NoTimer]
    /\ inflight = [f \in Fields |-> <<>>]
    /\ scheduled = [f \in Fields |-> 0]
    /\ mounted = TRUE

InitHist ==
    /\ latestPending = [f \in Fields |-> FALSE]
    /\ sinceKey = [f \in Fields |-> DEBOUNCE_MS]
    /\ burstCalls = [f \in Fields |-> 0]
    /\ sinceCall = [f \in Fields |-> DEBOUNCE_MS]
    /\ userSelection = Null

InitTrip ==
    /\ tripPlan = Null
    /\ loading = FALSE
    /\ error = Null
    /\ selectedCampsite = Null
    /\ planPc = "idle"
    /\ planRequests = 0

InitPure ==
    /\ input = <<>>
    /\ output = NotComputed

\* the coordinates App starts with, and the fit asked when TripMap is mounted
InitMap ==
    /\ coords = [start |-> [lat |-> "30.27", lon |-> "-97.74"],
                 dest |-> [lat |-> "39.74", lon |-> "-104.99"]]
    /\ fit = FitBounds(allPoints([startLat |-> "30.27", startLon |-> "-97.74",
                                  destLat |-> "39.74", destLon |-> "-104.99",
                                  tripPlan |-> Null, selectedCampsite |-> Null]))

Init == InitSearch /\ InitHist /\ InitTrip /\ InitPure /\ InitMap

(***************************************************************************)
(* The offline variant (src/src/App.jsx): geocodeCity looks the query up   *)
(* in a built-in table, at once and with no timer and no network call.     *)
(***************************************************************************)
cityDatabase == <<
    [name |-> "Austin, TX", lat |-> Num(3027, 2), lon |-> Num(-9774, 2)],
    [name |-> "Denver, CO", lat |-> Num(3974, 2), lon |-> Num(-10499, 2)],
    [name |-> "Moab, UT", lat |-> Num(3857, 2), lon |-> Num(-10955, 2)],
    [name |-> "Big Bend National Park, TX", lat |-> Num(2925, 2), lon |-> Num(-10325, 2)],
    [name |-> "Sedona, AZ", lat |-> Num(3487, 2), lon |-> Num(-11176, 2)],
    [name |-> "Flagstaff, AZ", lat |-> Num(352, 1), lon |-> Num(-11165, 2)],
    [name |-> "Santa Fe, NM", lat |-> Num(3569, 2), lon |-> Num(-10594, 2)],
    [name |-> "Albuquerque, NM", lat |-> Num(3508, 2), lon |-> Num(-10665, 2)],
    [name |-> "Phoenix, AZ", lat |-> Num(3345, 2), lon |-> Num(-11207, 2)],
    [name |-> "Tucson, AZ", lat |-> Num(3222, 2), lon |-> Num(-11093, 2)],
    [name |-> "Las Vegas, NV", lat |-> Num(3617, 2), lon |-> Num(-11514, 2)],
    [name |-> "Salt Lake City, UT", lat |-> Num(4076, 2), lon |-> Num(-11189, 2)],
    [name |-> "Colorado Springs, CO", lat |-> Num(3883, 2), lon |-> Num(-10482, 2)],
    [name |-> "Durango, CO", lat |-> Num(3728, 2), lon |-> Num(-10788, 2)],
    [name |-> "Taos, NM", lat |-> Num(3641, 2), lon |-> Num(-10557, 2)],
    [name |-> "Carlsbad, NM", lat |-> Num(3242, 2), lon |-> Num(-10423, 2)],
    [name |-> "El Paso, TX", lat |-> Num(3176, 2), lon |-> Num(-10649, 2)],
    [name |-> "Houston, TX", lat |-> Num(2976, 2), lon |-> Num(-9537, 2)],
    [name |-> "Dallas, TX", lat |-> Num(3278, 2), lon |-> Num(-968, 1)],
    [name |-> "San Antonio, TX", lat |-> Num(2942, 2), lon |-> Num(-9849, 2)],
    [name |-> "Fort Worth, TX", lat |-> Num(3275, 2), lon |-> Num(-9733, 2)],
    [name |-> "Oklahoma City, OK", lat |-> Num(3547, 2), lon |-> Num(-9752, 2)],
    [name |-> "Kansas City, MO", lat |-> Num(391, 1), lon |-> Num(-9458, 2)],
    [name |-> "Amarillo, TX", lat |-> Num(3522, 2), lon |-> Num(-10183, 2)],
    [name |-> "Lubbock, TX", lat |-> Num(3358, 2), lon |-> Num(-10185, 2)],
    [name |-> "Midland, TX", lat |-> Num(3199, 2), lon |-> Num(-10208, 2)],
    [name |-> "Marfa, TX", lat |-> Num(3031, 2), lon |-> Num(-10402, 2)],
    [name |-> "Terlingua, TX", lat |-> Num(2932, 2), lon |-> Num(-10361, 2)],
    [name |-> "Joshua Tree, CA", lat |-> Num(3413, 2), lon |-> Num(-11631, 2)],
    [name |-> "Death Valley, CA", lat |-> Num(3651, 2), lon |-> Num(-11708, 2)],
    [name |-> "Grand Canyon, AZ", lat |-> Num(3605, 2), lon |-> Num(-11214, 2)],
    [name |-> "Zion National Park, UT", lat |-> Num(373, 1), lon |-> Num(-11303, 2)],
    [name |-> "Bryce Canyon, UT", lat |-> Num(3759, 2), lon |-> Num(-11219, 2)],
    [name |-> "Arches National Park, UT", lat |-> Num(3873, 2), lon |-> Num(-10959, 2)],
    [name |-> "Canyonlands, UT", lat |-> Num(3833, 2), lon |-> Num(-10988, 2)],
    [name |-> "Mesa Verde, CO", lat |-> Num(3718, 2), lon |-> Num(-10849, 2)],
    [name |-> "Black Canyon, CO", lat |-> Num(3858, 2), lon |-> Num(-10772, 2)],
    [name |-> "Great Sand Dunes, CO", lat |-> Num(3773, 2), lon |-> Num(-10551, 2)],
    [name |-> "Rocky Mountain National Park, CO", lat |-> Num(4034, 2), lon |-> Num(-10568, 2)],
    [name |-> "Yellowstone, WY", lat |-> Num(4443, 2), lon |-> Num(-11059, 2)],
    [name |-> "Jackson Hole, WY", lat |-> Num(4348, 2), lon |-> Num(-11076, 2)]
>>

OFFLINE_MIN_QUERY_LEN == 2
OFFLINE_MAX_MATCHES == 5

\* s.includes(sub)
Includes(s, sub) ==
    \E i \in 0..(Len(s) - Len(sub)) : SubSeq(s, i + 1, i + Len(sub)) = sub

MatchesQuery(city, query) == Includes(toLowerCase(city.name), toLowerCase(query))

\* cityDatabase.filter(...).slice(0, 5) of App.jsx:78-80
offlineMatches(query) ==
    slice0(SelectSeq(cityDatabase, LAMBDA city : MatchesQuery(city, query)),
           OFFLINE_MAX_MATCHES)

\* what the user types into a search field of the offline variant
OfflineQueries == {"", "a", "tx", "TX", "co", "zz", "aus", "den", "moab", "Austin, TX"}

\* offlineMatches, looked up for the queries of OfflineQueries
OfflineAnswers == [q \in OfflineQueries |-> offlineMatches(q)]
OfflineAnswer(q) == IF q \in OfflineQueries THEN OfflineAnswers[q] ELSE offlineMatches(q)

\* geocodeCity(query, ...) of field f in App.jsx:70-84; setSearching(true) and
\* setSearching(false) are batched into one update of the flag
geocodeCityOffline(f, query) ==
    IF Len(query) < OFFLINE_MIN_QUERY_LEN
    THEN /\ suggestions' = [suggestions EXCEPT ![f] = <<>>]
         /\ searching' = searching
    ELSE /\ suggestions' = [suggestions EXCEPT ![f] = OfflineAnswer(query)]
         /\ searching' = [searching EXCEPT ![f] = FALSE]

\* onChange of a search field (App.jsx:183-186, 208-211)
KeystrokeOffline(f, q) ==
    /\ text' = [text EXCEPT ![f] = q]
    /\ geocodeCityOffline(f, q)
    /\ UNCHANGED <<timer, inflight, scheduled, mounted>>
    /\ UNCHANGED <<tripVars, pureVars>>

(***************************************************************************)
(* History variables: what a step of a search field adds to the record of  *)
(* keystrokes and calls.                                                   *)
(***************************************************************************)
\* the granularity of the clock
TickMs == DEBOUNCE_MS \div 2

\* burstCalls counts up to this
MaxBurstCount == 2

\* a keystroke less than DEBOUNCE_MS after the one before continues the burst
HistKeystroke(f) ==
    /\ sinceKey' = [sinceKey EXCEPT ![f] = 0]
    /\ burstCalls' = [burstCalls EXCEPT ![f] = IF sinceKey[f] >= DEBOUNCE_MS THEN 0 ELSE @]
    /\ UNCHANGED <<latestPending, sinceCall, userSelection>>

HistIssue(f) ==
    /\ latestPending' = [latestPending EXCEPT ![f] = TRUE]
    /\ burstCalls' = [burstCalls EXCEPT ![f] = Min(@ + 1, MaxBurstCount)]
    /\ sinceCall' = [sinceCall EXCEPT ![f] = 0]
    /\ UNCHANGED <<sinceKey, userSelection>>

\* the call issued last is the last of inflight[f] while latestPending[f]
HistAnswer(f, i) ==
    /\ latestPending' = [latestPending EXCEPT ![f] = IF i = Len(inflight[f]) THEN FALSE ELSE @]
    /\ UNCHANGED <<sinceKey, burstCalls, sinceCall, userSelection>>

HistTick(ms) ==
    /\ sinceKey' = [f \in Fields |-> Min(sinceKey[f] + ms, DEBOUNCE_MS)]
    /\ sinceCall' = [f \in Fields |-> Min(sinceCall[f] + ms, DEBOUNCE_MS)]
    /\ UNCHANGED <<latestPending, burstCalls, userSelection>>

(***************************************************************************)
(* SpecField: the user works in one of the two search fields, with the     *)
(* clock and the history of keystrokes and calls.                          *)
(***************************************************************************)
\* at most this many geocoding calls of one field are in flight
MaxInFlight == 2

Other(f) == IF f = "start" THEN "dest" ELSE "start"

Untouched(f) ==
    /\ text[f] = InitText[f]
    /\ suggestions[f] = <<>>
    /\ ~searching[f]
    /\ timer[f] = NoTimer
    /\ inflight[f] = <<>>

\* the application before, or after, a first trip-plan request that failed
InitAfterPlan ==
    /\ tripPlan = Null
    /\ loading = FALSE
    /\ error \in {Null} \cup PlanErrors
    /\ selectedCampsite = Null
    /\ planPc = "idle"
    /\ planRequests = 0

FieldNext ==
    \/ \E f \in Fields, q \in Queries :
          Untouched(Other(f)) /\ Keystroke(f, q) /\ HistKeystroke(f) /\ UNCHANGED mapVars
    \/ \E f \in Fields :
          Len(inflight[f]) < MaxInFlight /\ TimerFire(f) /\ HistIssue(f) /\ UNCHANGED mapVars
    \/ \E f \in Fields, i \in 1..MaxInFlight :
          GeocodeOk(f, i) /\ HistAnswer(f, i) /\ UNCHANGED mapVars
    \/ \E f \in Fields, i \in 1..MaxInFlight, how \in GeocodeFailures :
          GeocodeFail(f, i, how) /\ HistAnswer(f, i) /\ UNCHANGED mapVars
    \/ Tick(TickMs) /\ HistTick(TickMs) /\ UNCHANGED mapVars

InitField == InitSearch /\ InitHist /\ InitAfterPlan /\ InitPure /\ InitMap

SpecField == InitField /\ [][FieldNext]_vars

(***************************************************************************)
(* SpecSearch: both search fields at once; the clock moves by whole        *)
(* debounce delays and the history is not kept.                            *)
(***************************************************************************)
\* at most this many geocoding calls of one field are in flight when both fields work
MaxInFlightBoth == 1

SearchNext ==
    \/ \E f \in Fields, q \in Queries : Keystroke(f, q) /\ UNCHANGED <<histVars, mapVars>>
    \/ \E f \in Fields :
          Len(inflight[f]) < MaxInFlightBoth /\ TimerFire(f) /\ UNCHANGED <<histVars, mapVars>>
    \/ \E f \in Fields, i \in 1..MaxInFlightBoth : GeocodeOk(f, i) /\ UNCHANGED <<histVars, mapVars>>
    \/ \E f \in Fields, i \in 1..MaxInFlightBoth, how \in GeocodeFailures :
          GeocodeFail(f, i, how) /\ UNCHANGED <<histVars, mapVars>>
    \/ Tick(DEBOUNCE_MS) /\ UNCHANGED <<histVars, mapVars>>

SpecSearch == Init /\ [][SearchNext]_vars

(***************************************************************************)
(* SpecTrip: the trip-plan request and the selection.                      *)
(***************************************************************************)
TripNext ==
    \/ PlanTrip /\ UNCHANGED <<histVars, mapVars>>
    \/ \E data \in Plans : PlanOk(data) /\ UNCHANGED <<histVars, mapVars>>
    \/ \E err \in PlanErrors : PlanFail(err) /\ UNCHANGED <<histVars, mapVars>>
    \/ \E site \in ClickableSites(tripPlan) : SelectCampsite(site) /\ UNCHANGED <<histVars, mapVars>>
    \/ ClearSelection /\ UNCHANGED <<histVars, mapVars>>

SpecTrip == Init /\ [][TripNext]_vars

(***************************************************************************)
(* SpecTripLive: SpecTrip where the network call of a request completes.   *)
(***************************************************************************)
\* the fetch of planTrip settles: its response, or its failure, is handled
PlanDone ==
    \/ \E data \in Plans : PlanOk(data) /\ UNCHANGED <<histVars, mapVars>>
    \/ \E err \in PlanErrors : PlanFail(err) /\ UNCHANGED <<histVars, mapVars>>

SpecTripLive == Init /\ [][TripNext]_vars /\ WF_vars(PlanDone)

(***************************************************************************)
(* SpecSelection: SpecTrip with the history of the user's own choice: what *)
(* the last click on a campsite or on Clear Selection left selected.       *)
(***************************************************************************)
HistSelect(site) ==
    /\ userSelection' = site
    /\ UNCHANGED <<latestPending, sinceKey, burstCalls, sinceCall>>

HistClear ==
    /\ userSelection' = Null
    /\ UNCHANGED <<latestPending, sinceKey, burstCalls, sinceCall>>

SelectionNext ==
    \/ PlanTrip /\ UNCHANGED <<histVars, mapVars>>
    \/ \E data \in Plans : PlanOk(data) /\ UNCHANGED <<histVars, mapVars>>
    \/ \E err \in PlanErrors : PlanFail(err) /\ UNCHANGED <<histVars, mapVars>>
    \/ \E site \in ClickableSites(tripPlan) :
          SelectCampsite(site) /\ HistSelect(site) /\ UNCHANGED mapVars
    \/ ClearSelection /\ HistClear /\ UNCHANGED mapVars

SpecSelection == Init /\ [][SelectionNext]_vars

(***************************************************************************)
(* SpecOffline: the search fields of the offline variant.                  *)
(***************************************************************************)
OfflineNext ==
    \E f \in Fields, q \in OfflineQueries : KeystrokeOffline(f, q) /\ UNCHANGED <<histVars, mapVars>>

SpecOffline == Init /\ [][OfflineNext]_vars

(***************************************************************************)
(* TripMap's route (part_001:70-84).                                       *)
(***************************************************************************)
\* tripPlan?.route_geometry && tripPlan.route_geometry.length > 0: false for no plan,
\* for a plan without the field and for an empty geometry
HasRoute(plan) ==
    /\ plan # Null
    /\ "route_geometry" \in DOMAIN plan
    /\ Len(plan.route_geometry) > 0

\* getRoutePositions that keeps the backend's axis order
getRoutePositions_NoSwap(props) ==
    IF HasRoute(props.tripPlan)
    THEN [i \in 1..Len(props.tripPlan.route_geometry) |->
             <<props.tripPlan.route_geometry[i][1], props.tripPlan.route_geometry[i][2]>>]
    ELSE <<<<parseFloat(props.startLat), parseFloat(props.startLon)>>,
           <<parseFloat(props.destLat), parseFloat(props.destLon)>>>>

\* getRoutePositions that tests only the presence of the geometry, not its length
getRoutePositions_NoFallback(props) ==
    IF props.tripPlan # Null /\ "route_geometry" \in DOMAIN props.tripPlan
    THEN [i \in 1..Len(props.tripPlan.route_geometry) |->
             <<props.tripPlan.route_geometry[i][2], props.tripPlan.route_geometry[i][1]>>]
    ELSE <<<<parseFloat(props.startLat), parseFloat(props.startLon)>>,
           <<parseFloat(props.destLat), parseFloat(props.destLon)>>>>

\* coord[0] and coord[1] of the source are g[i][1] and g[i][2] here
getRoutePositions(props) ==
    IF HasRoute(props.tripPlan)
    THEN [i \in 1..Len(props.tripPlan.route_geometry) |->
             <<props.tripPlan.route_geometry[i][2], props.tripPlan.route_geometry[i][1]>>]
    ELSE <<<<parseFloat(props.startLat), parseFloat(props.startLon)>>,
           <<parseFloat(props.destLat), parseFloat(props.destLon)>>>>

(***************************************************************************)
(* SpecShortName: buildShortName applied to a record of the place-search   *)
(* service.                                                                *)
(***************************************************************************)
AddrKeys == {"city", "town", "village", "hamlet", "county", "state", "country_code"}

AddrValue ==
    [city |-> "Austin", town |-> "Leander", village |-> "Volente", hamlet |-> "Hye",
     county |-> "Travis County", state |-> "Texas", country_code |-> "us"]

\* every choice of the fields present, and the same with an empty city
Addresses ==
    {[k \in K |-> AddrValue[k]] : K \in SUBSET AddrKeys}
    \cup {[k \in K |-> IF k = "city" THEN "" ELSE AddrValue[k]] :
            K \in {K \in SUBSET AddrKeys : "city" \in K}}

DisplayNames ==
    {"Austin, Travis County, Texas, United States", "Texas", "  Hye ,Blanco County , Texas",
     "Volente,,Texas", ",", ""}

ShortNameInputs ==
    {[display_name |-> d, address |-> a, lat |-> "30.27", lon |-> "-97.74"] :
        d \in DisplayNames, a \in Addresses}
    \cup {[display_name |-> d, lat |-> "30.27", lon |-> "-97.74"] : d \in DisplayNames}

InitShortName ==
    /\ InitSearch /\ InitHist /\ InitTrip /\ InitMap
    /\ input \in ShortNameInputs
    /\ output = NotComputed

CallBuildShortName ==
    /\ ~output.done
    /\ output' = Computed(buildShortName(input))
    /\ UNCHANGED <<input, searchVars, histVars, tripVars, mapVars>>

SpecShortName == InitShortName /\ [][CallBuildShortName]_vars

(***************************************************************************)
(* SpecRoute: getRoutePositions applied to the props of TripMap.           *)
(***************************************************************************)
\* a route geometry has at most this many points
MaxGeometry == 3

\* [lon, lat] pairs of the routing service, one of them with an elevation
GeoCoords ==
    {<<Num(-9774, 2), Num(3027, 2)>>, <<Num(-10499, 2), Num(3974, 2)>>,
     <<Num(-10, 0), Num(-10, 0)>>, <<Num(-10190, 2), Num(3505, 2), Num(1580, 0)>>}

Geometries == UNION {[1..n -> GeoCoords] : n \in 0..MaxGeometry}

RoutePlans ==
    {[nearby_campsites |-> <<>>, segments |-> <<>>, route_geometry |-> g] : g \in Geometries}
    \cup {[nearby_campsites |-> <<>>, segments |-> <<>>], Null}
    \cup {[nearby_campsites |-> <<SiteA1, SiteB1>>,
            segments |-> <<[day |-> 1, suggested_campsite |-> SiteA1]>>,
            route_geometry |-> <<>>],
           [nearby_campsites |-> <<SiteA1, SiteB1>>,
            segments |-> <<[day |-> 1, suggested_campsite |-> SiteA1]>>]}

RouteInputs ==
    {[tripPlan |-> plan, startLat |-> "30.27", startLon |-> "-97.74",
      destLat |-> dlat, destLon |-> "-104.99"] :
        plan \in RoutePlans, dlat \in {"39.74", "30.27"}}

InitRoute ==
    /\ InitSearch /\ InitHist /\ InitTrip /\ InitMap
    /\ input \in RouteInputs
    /\ output = NotComputed

RenderRoute ==
    /\ ~output.done
    /\ output' = Computed(getRoutePositions(input))
    /\ UNCHANGED <<input, searchVars, histVars, tripVars, mapVars>>

SpecRoute == InitRoute /\ [][RenderRoute]_vars

(***************************************************************************)
(* SpecBounds: one render of TripMap, from its props to the fit it asks.   *)
(***************************************************************************)
\* the trip plans a render may see: none, one without the campsite list, and the
\* service's answers
BoundsPlans == Plans \cup {Null, [segments |-> <<>>, route_geometry |-> <<>>]}

\* destinations: another place, the start itself, the start written with a trailing
\* zero, and a text that is no number
BoundsDests ==
    {[lat |-> "39.74", lon |-> "-104.99"], [lat |-> "30.27", lon |-> "-97.74"],
     [lat |-> "30.270", lon |-> "-97.74"], [lat |-> "", lon |-> "-97.74"]}

BoundsInputs ==
    {[tripPlan |-> plan, startLat |-> "30.27", startLon |-> "-97.74",
      destLat |-> d.lat, destLon |-> d.lon] : plan \in BoundsPlans, d \in BoundsDests}

InitBounds ==
    /\ InitSearch /\ InitHist /\ InitTrip /\ InitMap
    /\ input \in BoundsInputs
    /\ output = NotComputed

RenderBounds ==
    /\ ~output.done
    /\ output' = Computed(FitBounds(allPoints(input)))
    /\ UNCHANGED <<input, searchVars, histVars, tripVars, mapVars>>

SpecBounds == InitBounds /\ [][RenderBounds]_vars

(***************************************************************************)
(* SpecMap: the application with its map: one search field worked at a     *)
(* time, the choice of a suggestion, the trip plan and the selection, each *)
(* step followed by the render it causes.                                  *)
(***************************************************************************)
\* the answers of the trip-plan service seen in this specification
MapPlans == {PlanOf({}), PlanOf({SiteA1}), PlanOf({SiteA1, SiteB1})}

MapNext ==
    \/ \E f \in Fields, q \in Queries :
          /\ Untouched(Other(f)) /\ q # text[f]
          /\ Keystroke(f, q)
          /\ UNCHANGED <<histVars, coords>> /\ Rendered(Len(q) < MIN_QUERY_LEN)
    \/ \E f \in Fields :
          /\ Len(inflight[f]) < MaxInFlightBoth
          /\ TimerFire(f)
          /\ UNCHANGED <<histVars, coords>> /\ Rendered(FALSE)
    \/ \E f \in Fields, i \in 1..MaxInFlightBoth :
          GeocodeOk(f, i) /\ UNCHANGED <<histVars, coords>> /\ Rendered(TRUE)
    \/ \E f \in Fields, i \in 1..MaxInFlightBoth, how \in GeocodeFailures :
          GeocodeFail(f, i, how) /\ UNCHANGED <<histVars, coords>> /\ Rendered(TRUE)
    \/ Tick(DEBOUNCE_MS) /\ UNCHANGED <<histVars, coords>> /\ Rendered(FALSE)
    \/ \E f \in Fields, k \in 1..Len(Answers["aus"]) :
          /\ k <= Len(suggestions[f])
          /\ selectLocation(f, suggestions[f][k])
          /\ UNCHANGED histVars /\ Rendered(TRUE)
    \/ PlanTrip /\ UNCHANGED <<histVars, coords>> /\ Rendered(FALSE)
    \/ \E data \in MapPlans : PlanOk(data) /\ UNCHANGED <<histVars, coords>> /\ Rendered(TRUE)
    \/ \E err \in PlanErrors : PlanFail(err) /\ UNCHANGED <<histVars, coords>> /\ Rendered(FALSE)
    \/ \E site \in ClickableSites(tripPlan) :
          SelectCampsite(site) /\ UNCHANGED <<histVars, coords>> /\ Rendered(FALSE)
    \/ ClearSelection /\ UNCHANGED <<histVars, coords>> /\ Rendered(FALSE)

SpecMap == Init /\ [][MapNext]_vars

(***************************************************************************)
(* The marker and colour classifiers (part_001:23-30, 86, 135-147;         *)
(* part_000:336-344, the same in src/src/App.jsx:125-133). A value of the  *)
(* trip-plan service is a string, null, or undefined when the field is     *)
(* missing. The tables are object literals: a key they do not own is       *)
(* looked up in Object.prototype.                                          *)
(***************************************************************************)
Str(s) == [t |-> "string", v |-> s]
Undefined == [t |-> "undefined"]
JsNull == [t |-> "null"]
\* a function or object inherited from Object.prototype
Inherited(k) == [t |-> "object", v |-> "Object.prototype." \o k]
\* createIcon(color)
createIcon(color) == [t |-> "icon", color |-> color]

ObjectPrototypeKeys ==
    {"constructor", "toString", "toLocaleString", "valueOf", "hasOwnProperty",
     "isPrototypeOf", "propertyIsEnumerable", "__proto__"}

\* the property key a value is converted to
ToPropertyKey(v) == IF v.t = "string" THEN v.v ELSE v.t

\* obj[key] of an object literal
Lookup(obj, key) ==
    LET k == ToPropertyKey(key)
    IN IF k \in DOMAIN obj THEN obj[k]
       ELSE IF k \in ObjectPrototypeKeys THEN Inherited(k)
       ELSE Undefined

JsTruthy(v) == v.t \notin {"undefined", "null"} /\ ~(v.t = "string" /\ v.v = "")

\* a || b
OrElse(a, b) == IF JsTruthy(a) THEN a ELSE b

icons ==
    [start |-> createIcon("green"), end |-> createIcon("red"),
     dispersed |-> createIcon("orange"), campground |-> createIcon("blue"),
     rv_park |-> createIcon("violet"), default |-> createIcon("grey")]

getCampsiteIcon(type) == OrElse(Lookup(icons, type), icons["default"])

\* String.prototype.replace(a, b) with a string pattern: the first occurrence only
replaceFirst(s, a, b) ==
    LET i == IndexOf(s, a)
    IN IF i = 0 THEN s ELSE SubSeq(s, 1, i - 1) \o b \o SubSeq(s, i + 1, Len(s))

\* a campsite Marker of TripMap: its icon and its popup's type line; site.type.replace
\* throws a TypeError when the type is no string
campsiteMarker(site) ==
    IF site.type.t # "string"
    THEN [of |-> "marker", threw |-> TRUE]
    ELSE [of |-> "marker", threw |-> FALSE,
          icon |-> getCampsiteIcon(site.type),
          popupType |-> replaceFirst(site.type.v, "_", " ")]

cellServiceColors ==
    [excellent |-> Str("#22c55e"), good |-> Str("#84cc16"), weak |-> Str("#eab308"),
     none |-> Str("#ef4444")]

getCellServiceColor(service) == OrElse(Lookup(cellServiceColors, service), Str("#6b7280"))

difficultyColors ==
    [easy |-> Str("#22c55e"), moderate |-> Str("#eab308"), difficult |-> Str("#ef4444")]

getDifficultyColor(diff) == OrElse(Lookup(difficultyColors, diff), Str("#6b7280"))

\* a campsite card of App: the colours of its two labels
campsiteCard(site) ==
    [of |-> "card",
     cell |-> getCellServiceColor(site.cell_service),
     difficulty |-> getDifficultyColor(site.difficulty)]

(***************************************************************************)
(* SpecClassify: a site of the trip plan is drawn as a marker or as a card.*)
(***************************************************************************)
SiteTypes ==
    {Str(x) : x \in {"dispersed", "campground", "rv_park", "primitive", "start", "end",
                     "default", "constructor", ""}} \cup {Undefined, JsNull}

CellServices ==
    {Str(x) : x \in {"excellent", "good", "weak", "none", "5g", "easy", "constructor", ""}}
    \cup {Undefined, JsNull}

Difficulties ==
    {Str(x) : x \in {"easy", "moderate", "difficult", "extreme", "good", "toString"}}
    \cup {Undefined, JsNull}

ClassifyInputs ==
    {[type |-> t, cell_service |-> c, difficulty |-> d] :
        t \in SiteTypes, c \in CellServices, d \in Difficulties}

InitClassify ==
    /\ InitSearch /\ InitHist /\ InitTrip /\ InitMap
    /\ input \in ClassifyInputs
    /\ output = NotComputed

RenderMarker ==
    /\ ~output.done
    /\ output' = Computed(campsiteMarker(input))
    /\ UNCHANGED <<input, searchVars, histVars, tripVars, mapVars>>

RenderCard ==
    /\ ~output.done
    /\ output' = Computed(campsiteCard(input))
    /\ UNCHANGED <<input, searchVars, histVars, tripVars, mapVars>>

ClassifyNext == RenderMarker \/ RenderCard

SpecClassify == InitClassify /\ [][ClassifyNext]_vars

(***************************************************************************)
(* Unmounting. App registers no cleanup (it has no effect at all,          *)
(* part_000:212, 239-241), so an unmount leaves the timer refs and the     *)
(* browser's timers as they are; a setter called afterwards changes no     *)
(* state.                                                                  *)
(***************************************************************************)
Unmount ==
    /\ mounted
    /\ mounted' = FALSE
    /\ UNCHANGED <<text, suggestions, searching, timer, inflight, scheduled>>
    /\ UNCHANGED <<tripVars, pureVars>>

\* the timer callback up to its await fetch (part_000:266-277), App being unmounted
TimerFireUnmounted(f) ==
    /\ ~mounted
    /\ timer[f].pending
    /\ timer[f].rem = 0
    /\ inflight' = [inflight EXCEPT ![f] = Append(@, [query |-> timer[f].query])]
    /\ timer' = [timer EXCEPT ![f] = NoTimer]
    /\ scheduled' = [scheduled EXCEPT ![f] = @ - 1]
    /\ UNCHANGED <<text, suggestions, searching, mounted>>
    /\ UNCHANGED <<tripVars, pureVars>>

\* the rest of the callback (part_000:278-291), answer or failure, App being unmounted
GeocodeDoneUnmounted(f, i) ==
    /\ ~mounted
    /\ i \in 1..Len(inflight[f])
    /\ inflight' = [inflight EXCEPT ![f] = RemoveAt(@, i)]
    /\ UNCHANGED <<text, suggestions, searching, timer, scheduled, mounted>>
    /\ UNCHANGED <<tripVars, pureVars>>

(***************************************************************************)
(* SpecUnmount: one search field is worked, and App may be unmounted at    *)
(* any moment.                                                             *)
(***************************************************************************)
UnmountNext ==
    \/ \E f \in Fields, q \in Queries :
          /\ mounted /\ Untouched(Other(f))
          /\ Keystroke(f, q) /\ UNCHANGED <<histVars, mapVars>>
    \/ \E f \in Fields :
          /\ mounted /\ Len(inflight[f]) < MaxInFlightBoth
          /\ TimerFire(f) /\ UNCHANGED <<histVars, mapVars>>
    \/ \E f \in Fields, i \in 1..MaxInFlightBoth :
          mounted /\ GeocodeOk(f, i) /\ UNCHANGED <<histVars, mapVars>>
    \/ \E f \in Fields, i \in 1..MaxInFlightBoth, how \in GeocodeFailures :
          mounted /\ GeocodeFail(f, i, how) /\ UNCHANGED <<histVars, mapVars>>
    \/ Tick(DEBOUNCE_MS) /\ UNCHANGED <<histVars, mapVars>>
    \/ Unmount /\ UNCHANGED <<histVars, mapVars>>
    \/ \E f \in Fields : TimerFireUnmounted(f) /\ UNCHANGED <<histVars, mapVars>>
    \/ \E f \in Fields, i \in 1..MaxInFlightBoth :
          GeocodeDoneUnmounted(f, i) /\ UNCHANGED <<histVars, mapVars>>

SpecUnmount == Init /\ [][UnmountNext]_vars

(***************************************************************************)
(* SpecChoose: suggestions are on display in the search fields, with or    *)
(* without a trip plan and a selection, and the user chooses among them.   *)
(***************************************************************************)
\* a record whose label is blank, without address, latitude and with a small longitude
RecBlank == [display_name |-> " ", lat |-> "", lon |-> "-0.5"]

\* the suggestion lists a field may show
ChoiceLists == {<<>>, Answers["aus"], Answers["den"], Suggest(<<RecBlank, RecDenver>>)}

InitChoose ==
    /\ text = InitText
    /\ suggestions \in [Fields -> ChoiceLists]
    /\ searching = [f \in Fields |-> FALSE]
    /\ timer = [f \in Fields |-> NoTimer]
    /\ inflight = [f \in Fields |-> <<>>]
    /\ scheduled = [f \in Fields |-> 0]
    /\ mounted = TRUE
    /\ InitHist /\ InitPure
    /\ tripPlan \in {Null, PlanOf({SiteA1, SiteB1})}
    /\ selectedCampsite \in {Null} \cup (ClickableSites(tripPlan) \cap {SiteB1})
    /\ loading = FALSE
    /\ error = Null
    /\ planPc = "idle"
    /\ planRequests = 0
    /\ coords = [start |-> [lat |-> "30.27", lon |-> "-97.74"],
                 dest |-> [lat |-> "39.74", lon |-> "-104.99"]]
    /\ fit = FitBounds(allPoints(TripMapProps))

ChooseNext ==
    \E f \in Fields : \E k \in DOMAIN suggestions[f] :
        selectLocation(f, suggestions[f][k]) /\ UNCHANGED histVars /\ Rendered(TRUE)

SpecChoose == InitChoose /\ [][ChooseNext]_vars

(***************************************************************************)
(* The whole application.                                                  *)
(***************************************************************************)
Next == SearchNext \/ TripNext

Spec == Init /\ [][Next]_vars

(***************************************************************************)
(* Properties of the search fields.                                        *)
(***************************************************************************)
\* a call of field f is answered, or fails, in this step
Answered(f) == Len(inflight'[f]) < Len(inflight[f])

\* a call of field f is issued in this step
Issued(f) == Len(inflight'[f]) > Len(inflight[f])

\* C1: last-issued-wins: the answer (or failure) of a call is applied to the field's
\* suggestion list only if the call is the one issued last for that field; the answer
\* of an older call, arriving after a newer call was issued, leaves the list as it is.
C1_LastIssuedWins ==
    [][\A f \in Fields :
          Answered(f) =>
              \/ latestPending[f] /\ ~latestPending'[f]
              \/ suggestions'[f] = suggestions[f]]_vars

\* C3: in a burst of keystrokes less than DEBOUNCE_MS apart at most one call is issued,
\* it carries the query of the last keystroke, and two calls of a field are issued at
\* least DEBOUNCE_MS apart.
C3_OneCallPerBurst ==
    /\ [](\A f \in Fields : burstCalls[f] <= 1)
    /\ [][\A f \in Fields :
             Issued(f) =>
                 /\ inflight'[f][Len(inflight'[f])].query = text[f]
                 /\ sinceCall[f] >= DEBOUNCE_MS]_vars

\* C5: a keystroke in a field whose timer is pending resets that timer whatever the
\* length of the new query: afterwards no timer is pending, or the one pending is the
\* new query's with its full delay, so the older call is never issued.
C5_KeystrokeResetsTimer ==
    [][\A f \in Fields, q \in Queries :
          (timer[f].pending /\ Keystroke(f, q)) =>
              (timer'[f] = NoTimer \/ timer'[f] = Pending(q))]_vars

\* a step of field f: a keystroke, its timer's expiry, an answer or a failure
FieldStep(f) ==
    \/ \E q \in Queries : Keystroke(f, q)
    \/ TimerFire(f)
    \/ \E i \in 1..Len(inflight[f]) : GeocodeOk(f, i)
    \/ \E i \in 1..Len(inflight[f]), how \in GeocodeFailures : GeocodeFail(f, i, how)

\* C6: a keystroke, timer expiry, answer or failure of one field leaves the other
\* field's timer, suggestion list and searching flag unchanged.
C6_FieldsIndependent ==
    [][\A f \in Fields :
          FieldStep(f) =>
              /\ timer'[Other(f)] = timer[Other(f)]
              /\ suggestions'[Other(f)] = suggestions[Other(f)]
              /\ searching'[Other(f)] = searching[Other(f)]]_vars

\* the start field's call was issued while the destination field shows suggestions
\* and has a timer pending
C6_Witness ==
    /\ searching["start"] /\ inflight["start"] # <<>>
    /\ timer["dest"].pending
    /\ suggestions["dest"] # <<>>

\* C7: a geocoding call that fails empties the field's suggestion list, clears its
\* searching flag and leaves the application's error message unchanged.
C7_FailureDegrades ==
    [][\A f \in Fields :
          (\E i \in 1..Len(inflight[f]), how \in GeocodeFailures : GeocodeFail(f, i, how)) =>
              /\ suggestions'[f] = <<>>
              /\ ~searching'[f]
              /\ error' = error]_vars

\* an error message is on display, and an answer cleared the flag of a field whose
\* list is empty while another call of the field is still in flight
C7_Witness ==
    /\ error # Null
    /\ \E f \in Fields :
          /\ inflight[f] # <<>>
          /\ ~searching[f]
          /\ suggestions[f] = <<>>
          /\ ~latestPending[f]

\* C8: the searching flag of a field is true exactly while a call of the field is in flight.
C8_SearchingIffInFlight ==
    \A f \in Fields : searching[f] <=> (inflight[f] # <<>>)

(***************************************************************************)
(* Properties of the trip plan and the selection.                          *)
(***************************************************************************)
\* C2: when planTrip's response is stored as the trip plan, the selection is none
\* right afterwards, so a selection always refers to a site of the displayed plan.
C2_ArrivalClearsSelection ==
    /\ [][(\E data \in Plans : PlanOk(data)) => selectedCampsite' = Null]_vars
    /\ [](selectedCampsite # Null => selectedCampsite \in ClickableSites(tripPlan))

\* C4: in every variant with a search field, a keystroke whose query is shorter than
\* MIN_QUERY_LEN characters schedules no timer, issues no call and leaves the field's
\* suggestion list empty.
C4_ShortQueryNoSearch ==
    [][\A f \in Fields, q \in Queries \cup OfflineQueries :
          (Len(q) < MIN_QUERY_LEN /\ (Keystroke(f, q) \/ KeystrokeOffline(f, q))) =>
              /\ suggestions'[f] = <<>>
              /\ timer' = timer
              /\ inflight' = inflight]_vars

(***************************************************************************)
(* Properties of the pure functions.                                       *)
(***************************************************************************)
\* the first non-empty of city, town, village, hamlet, county; "" when there is none
CityOf(addr) ==
    LET keys == <<"city", "town", "village", "hamlet", "county">>
        present == {i \in 1..Len(keys) : Get(addr, keys[i]) # ""}
    IN IF present = {} THEN ""
       ELSE Get(addr, keys[CHOOSE i \in present : \A j \in present : i <= j])

\* the first two comma-separated tokens of d, trimmed and joined by ", "
FirstTwoTokens(d) ==
    LET c1 == IndexOf(d, ",")
        rest == SubSeq(d, c1 + 1, Len(d))
        c2 == IndexOf(rest, ",")
    IN IF c1 = 0 THEN trim(d)
       ELSE trim(SubSeq(d, 1, c1 - 1)) \o ", "
            \o trim(IF c2 = 0 THEN rest ELSE SubSeq(rest, 1, c2 - 1))

\* C9: buildShortName returns "city, state" when a city and a state are present,
\* else "city, COUNTRYCODE" when a city and a country code are present, else the first
\* two comma-separated tokens of display_name, trimmed and joined by ", "; the city is
\* the first non-empty of city, town, village, hamlet, county.
C9_ShortName ==
    output.done =>
        LET addr == IF "address" \in DOMAIN input THEN input.address ELSE <<>>
            city == CityOf(addr)
            state == Get(addr, "state")
            code == Get(addr, "country_code")
        IN output.value =
              IF city # "" /\ state # "" THEN city \o ", " \o state
              ELSE IF city # "" /\ code # "" THEN city \o ", " \o toUpperCase(code)
              ELSE FirstTwoTokens(input.display_name)

\* the city comes from the hamlet, there is no state, and the country code is upper-cased
C9_Witness == output.done /\ output.value = "Hye, US"

\* C10: for a non-empty route geometry g the rendered route has the length of g and
\* its i-th point is (g[i][1], g[i][0]).
C10_AxisSwap ==
    (/\ output.done
     /\ input.tripPlan # Null
     /\ "route_geometry" \in DOMAIN input.tripPlan
     /\ input.tripPlan.route_geometry # <<>>) =>
        LET g == input.tripPlan.route_geometry
        IN /\ Len(output.value) = Len(g)
           /\ \A i \in 1..Len(g) : output.value[i] = <<g[i][2], g[i][1]>>

\* the geometry [(-97.74, 30.27), (-104.99, 39.74)] is rendered as
\* [(30.27, -97.74), (39.74, -104.99)]
C10_Witness ==
    /\ output.done
    /\ HasRoute(input.tripPlan)
    /\ input.tripPlan.route_geometry = <<<<Num(-9774, 2), Num(3027, 2)>>,
                                         <<Num(-10499, 2), Num(3974, 2)>>>>
    /\ output.value = <<<<Num(3027, 2), Num(-9774, 2)>>, <<Num(3974, 2), Num(-10499, 2)>>>>

\* C11: when the route geometry is empty or absent, with no trip plan or with a trip
\* plan whose other fields are filled, the rendered route is exactly [start, destination],
\* the numbers read from the current start and destination coordinates, in that order.
C11_StraightLineFallback ==
    (output.done /\ ~HasRoute(input.tripPlan)) =>
        /\ Len(output.value) = 2
        /\ output.value[1] = <<parseFloat(input.startLat), parseFloat(input.startLon)>>
        /\ output.value[2] = <<parseFloat(input.destLat), parseFloat(input.destLon)>>

\* a plan with two campsites and an empty geometry is rendered as the straight line
\* from (30.27, -97.74) to (39.74, -104.99)
C11_Witness ==
    /\ output.done
    /\ input.tripPlan # Null
    /\ "route_geometry" \in DOMAIN input.tripPlan
    /\ input.tripPlan.route_geometry = <<>>
    /\ Len(input.tripPlan.nearby_campsites) = 2
    /\ output.value = <<<<Num(3027, 2), Num(-9774, 2)>>, <<Num(3974, 2), Num(-10499, 2)>>>>

\* C12: for every route geometry, start and destination, the route handed to the map
\* has at least two positions, a geometry of exactly one point included.
C12_RouteLengthAtLeast2 ==
    output.done => Len(output.value) >= 2

(***************************************************************************)
(* Properties of the map's point set.                                      *)
(***************************************************************************)
\* the campsites of the plan a render sees
NearbyOf(plan) ==
    IF plan # Null /\ "nearby_campsites" \in DOMAIN plan THEN plan.nearby_campsites ELSE <<>>

\* C13: the point set handed to the fit is start, destination and the coordinates of
\* every nearby campsite of the current plan: 2 + (number of campsites) entries, and
\* the two-point set [start, destination] with no plan or with an empty campsite list.
C13_PointSet ==
    output.done =>
        LET near == NearbyOf(input.tripPlan)
            pts == output.value.bounds
        IN /\ output.value.called
           /\ Len(pts) = 2 + Len(near)
           /\ pts[1] = <<parseFloat(input.startLat), parseFloat(input.startLon)>>
           /\ pts[2] = <<parseFloat(input.destLat), parseFloat(input.destLon)>>
           /\ \A i \in 1..Len(near) : pts[2 + i] = <<near[i].lat, near[i].lon>>

\* a plan with three campsites gives five points, the first of them the start
C13_Witness ==
    /\ output.done
    /\ Len(NearbyOf(input.tripPlan)) = 3
    /\ Len(output.value.bounds) = 5
    /\ output.value.bounds[1] = <<Num(3027, 2), Num(-9774, 2)>>

\* C15: when start and destination are the same point and there is no point of
\* interest, the bounds asked of the map are not a single point: they have an extent.
C15_MinimumExtent ==
    (/\ output.done
     /\ NearbyOf(input.tripPlan) = <<>>
     /\ parseFloat(input.startLat) = parseFloat(input.destLat)
     /\ parseFloat(input.startLon) = parseFloat(input.destLon)) =>
        /\ output.value.called
        /\ \E i, j \in 1..Len(output.value.bounds) :
              output.value.bounds[i] # output.value.bounds[j]

\* C14: map.fitBounds is called only in a step that changes the point set (a point of
\* interest added or removed, start or destination changed): a step that leaves the
\* point set as it was, such as the selection or the clearing of a campsite or a
\* change of a searching flag, calls it not.
C14_RefitOnlyOnChange ==
    [][(allPoints(TripMapProps') = allPoints(TripMapProps)) => ~fit'.called]_vars

(***************************************************************************)
(* Properties of the classifiers.                                          *)
(***************************************************************************)
\* C16: the marker of a site never fails to render, and its icon is orange for
\* dispersed, blue for campground, violet for rv_park and the grey default for every
\* other type, unrecognized or missing.
C16_MarkerIconTotal ==
    (output.done /\ output.value.of = "marker") =>
        /\ ~output.value.threw
        /\ output.value.icon =
              createIcon(IF input.type = Str("dispersed") THEN "orange"
                         ELSE IF input.type = Str("campground") THEN "blue"
                         ELSE IF input.type = Str("rv_park") THEN "violet"
                         ELSE "grey")

\* C17: getCellServiceColor gives #22c55e for excellent, #84cc16 for good, #eab308 for
\* weak, #ef4444 for none and #6b7280 for every other input, missing and null included.
C17_CellServiceColor ==
    (output.done /\ output.value.of = "card") =>
        output.value.cell =
            Str(IF input.cell_service = Str("excellent") THEN "#22c55e"
                ELSE IF input.cell_service = Str("good") THEN "#84cc16"
                ELSE IF input.cell_service = Str("weak") THEN "#eab308"
                ELSE IF input.cell_service = Str("none") THEN "#ef4444"
                ELSE "#6b7280")

\* C18: getDifficultyColor gives #22c55e for easy, #eab308 for moderate, #ef4444 for
\* difficult and #6b7280 for every other input, a cell-service key such as good and a
\* missing value included.
C18_DifficultyColor ==
    (output.done /\ output.value.of = "card") =>
        output.value.difficulty =
            Str(IF input.difficulty = Str("easy") THEN "#22c55e"
                ELSE IF input.difficulty = Str("moderate") THEN "#eab308"
                ELSE IF input.difficulty = Str("difficult") THEN "#ef4444"
                ELSE "#6b7280")

(***************************************************************************)
(* Properties of the selection.                                            *)
(***************************************************************************)
\* C19: the selection is one slot and the last write wins: a select, from a marker, a
\* popup button or a row, makes its site the selection whatever was selected before,
\* and a clear makes the selection none.
C19_LastWriteWins ==
    /\ [][\A site \in Range(AllSites) : SelectCampsite(site) => selectedCampsite' = site]_vars
    /\ [][ClearSelection => selectedCampsite' = Null]_vars

\* the second campsite of a plan is selected: not the one the day's segment suggests
C19_Witness ==
    /\ tripPlan = PlanOf({SiteA1, SiteB1})
    /\ selectedCampsite = SiteB1

\* C20: the list view and the map view highlight the same site: with no selection
\* neither shows a highlight; with a selection the rows shown as selected are those of
\* the selected id, there is one, and the gold marker stands at that site.
C20_ViewsAgree ==
    /\ selectedCampsite = Null => (listHighlight = {} /\ mapHighlight = {})
    /\ selectedCampsite # Null =>
          /\ listHighlight # {}
          /\ \A site \in listHighlight :
                /\ site.id = selectedCampsite.id
                /\ mapHighlight = {<<site.lat, site.lon>>}

(***************************************************************************)
(* Properties of the trip-plan request.                                    *)
(***************************************************************************)
\* C21: a trip-plan request that fails sets the error to its one message and leaves
\* the stored trip plan exactly as it was; the stored plan changes only in a step
\* that handles a successful response.
C21_FailureKeepsPlan ==
    /\ [][\A err \in PlanErrors :
             PlanFail(err) => (error' = err /\ tripPlan' = tripPlan)]_vars
    /\ [][tripPlan' # tripPlan => \E data \in Plans : PlanOk(data)]_vars

\* a request failed while a plan with campsites was stored: the plan is still there
\* and the message is shown
C21_Witness ==
    /\ tripPlan = PlanOf({SiteA1, SiteB1})
    /\ error = [message |-> "Failed to plan trip"]
    /\ ~loading

(***************************************************************************)
(* Properties of the timers.                                               *)
(***************************************************************************)
\* C25: in every reachable state each search field has at most one debounce timer
\* scheduled and not yet fired, whatever the keystrokes, expiries and responses.
C25_OnePendingTimer ==
    \A f \in Fields : scheduled[f] <= 1

\* one timer is pending after a long query was typed over a pending one while a call
\* of the field is in flight, and after a short query left it pending
C25_Witness ==
    \E f \in Fields :
        /\ scheduled[f] = 1
        /\ timer[f].pending /\ timer[f].query = "den"
        /\ text[f] = "au"
        /\ inflight[f] # <<>> /\ inflight[f][1].query = "aus"

\* C22: once App is unmounted no debounce timer of a search field is pending, none
\* fires, no geocoding call is issued, and no suggestion list or searching flag changes.
C22_UnmountInvalidatesTimer ==
    /\ [](~mounted => \A f \in Fields : ~timer[f].pending /\ scheduled[f] = 0)
    /\ [][~mounted =>
             /\ \A f \in Fields : ~Issued(f)
             /\ suggestions' = suggestions
             /\ searching' = searching]_vars

(***************************************************************************)
(* Properties of the choice of a suggestion.                               *)
(***************************************************************************)
\* C23: choosing a suggestion of a field sets the field's latitude and longitude to
\* the suggestion's coordinates, its text to the suggestion's short name (the full
\* name when the short name is empty) and empties its suggestion list; the other
\* field's coordinates, text and suggestions, the trip plan and the selection stay.
C23_ChooseSuggestion ==
    [][\A f \in Fields : \A k \in DOMAIN suggestions[f] :
          selectLocation(f, suggestions[f][k]) =>
              LET sg == suggestions[f][k]
              IN /\ parseFloat(coords'[f].lat) = sg.lat
                 /\ parseFloat(coords'[f].lon) = sg.lon
                 /\ text'[f] = IF sg.shortName # "" THEN sg.shortName ELSE sg.name
                 /\ suggestions'[f] = <<>>
                 /\ coords'[Other(f)] = coords[Other(f)]
                 /\ text'[Other(f)] = text[Other(f)]
                 /\ suggestions'[Other(f)] = suggestions[Other(f)]
                 /\ tripPlan' = tripPlan
                 /\ selectedCampsite' = selectedCampsite]_vars

\* the start field took the suggestion with the blank label and no latitude, while the
\* destination's list, the plan and the selection are still there
C23_Witness ==
    /\ text["start"] = " "
    /\ coords["start"] = [lat |-> "NaN", lon |-> "-0.5"]
    /\ suggestions["start"] = <<>>
    /\ suggestions["dest"] = Answers["aus"]
    /\ selectedCampsite = SiteB1

\* C24: a successful geocoding response replaces the field's suggestion list in one
\* step by a list with one suggestion per record of the response, in the response's
\* order, each with the record's display name as its name, the record's coordinates
\* and the short name buildShortName gives for that record.
C24_ResponseMapping ==
    [][\A f \in Fields : \A i \in DOMAIN inflight[f] :
          GeocodeOk(f, i) =>
              LET data == Nominatim(inflight[f][i].query)
                  new == suggestions'[f]
              IN /\ Len(new) = Len(data)
                 /\ \A k \in 1..Len(data) :
                       /\ new[k].name = data[k].display_name
                       /\ new[k].lat = parseFloat(data[k].lat)
                       /\ new[k].lon = parseFloat(data[k].lon)
                       /\ new[k].shortName = buildShortName(data[k])]_vars

\* the answer to "aus" is on display: two suggestions, Texas before Minnesota
C24_Witness ==
    /\ Len(suggestions["start"]) = 2
    /\ suggestions["start"][1].name = "Austin, Travis County, Texas, United States"
    /\ suggestions["start"][1].shortName = "Austin, Texas"
    /\ suggestions["start"][2].name = "Austin, Mower County, Minnesota, United States"
    /\ suggestions["start"][2].lat = Num(4367, 2)
    /\ inflight["start"] = <<>>

\* C26: at most one trip-plan request is in flight; loading is true exactly while a
\* request is in flight; a request is started only while loading is false; and every
\* request started sets loading back to false, the network call completing.
C26_OnePlanRequest ==
    /\ [](planRequests <= 1)
    /\ [](loading <=> planRequests > 0)
    /\ [][planRequests' > planRequests => ~loading]_vars
    /\ (loading ~> ~loading)

\* a second request is in flight while the plan of the first is on display
C26_Witness ==
    /\ loading
    /\ planRequests = 1
    /\ tripPlan = PlanOf({SiteA1, SiteB1})

\* C27: a trip-plan request that fails leaves the selection as it was before the
\* request was started: the site the user selected on the plan still on display is
\* the current selection after the failure.
C27_FailureKeepsSelection ==
    [][(\E err \in PlanErrors : PlanFail(err)) =>
          (tripPlan # Null /\ userSelection \in ClickableSites(tripPlan)
              => selectedCampsite' = userSelection)]_vars

\* the texts a choice writes into a field (part_000:298, 305)
ChosenTexts ==
    UNION {{Or(Answers[q][k].shortName, Answers[q][k].name) : k \in 1..Len(Answers[q])} :
              q \in Queries}

\* C28: after a suggestion of a field is chosen, the field's suggestion list stays
\* empty until the user types in the field again: while the field shows the text the
\* choice wrote, neither a timer pending at the choice nor a response in flight at
\* the choice puts suggestions back.
C28_ListStaysEmpty ==
    \A f \in Fields : text[f] \in ChosenTexts => suggestions[f] = <<>>

====
